---- MODULE Spec2Model ----
(***************************************************************************)
(* Model of generate_scoreboard.py: the normalizer, the roster index       *)
(* builder, the name resolver, the retrying fetch and the scoreboard       *)
(* aggregator.                                                             *)
(*                                                                         *)
(* A Python str is modelled as a sequence of characters; a character is a  *)
(* one-element TLA+ string for ASCII and a code-point name ("U+00E9") for  *)
(* the non-ASCII characters the model needs.                               *)
(***************************************************************************)
EXTENDS Integers, Sequences, FiniteSets, TLC

(***************************************************************************)
(* Character tables: what str.lower, unicodedata.normalize("NFKD", .),     *)
(* unicodedata.combining, str.isalnum and str.isspace do on the model's    *)
(* alphabet.                                                               *)
(***************************************************************************)
UpperLetters ==
  <<"A","B","C","D","E","F","G","H","I","J","K","L","M",
    "N","O","P","Q","R","S","T","U","V","W","X","Y","Z">>

LowerLetters ==
  <<"a","b","c","d","e","f","g","h","i","j","k","l","m",
    "n","o","p","q","r","s","t","u","v","w","x","y","z">>

UpperSet == {UpperLetters[i] : i \in 1..26}

LowerSet == {LowerLetters[i] : i \in 1..26}

Digits == {"0","1","2","3","4","5","6","7","8","9"}

\* U+00E9 e-acute, U+00C9 E-acute, U+0301 combining acute accent,
\* U+2122 trade mark sign, U+1D2C modifier letter capital A,
\* U+00A0 no-break space, U+00A8 diaeresis, U+0308 combining diaeresis.
\* str.lower on one character (those of the alphabet lower to one character).
lower_ch(ch) ==
  IF ch \in UpperSet
    THEN LowerLetters[CHOOSE i \in 1..26 : UpperLetters[i] = ch]
    ELSE IF ch = "U+00C9" THEN "U+00E9" ELSE ch

\* unicodedata.normalize("NFKD", ch): the compatibility decomposition.
nfkd_ch(ch) ==
  CASE ch = "U+00E9" -> <<"e", "U+0301">>
    [] ch = "U+00C9" -> <<"E", "U+0301">>
    [] ch = "U+2122" -> <<"T", "M">>
    [] ch = "U+1D2C" -> <<"A">>
    [] ch = "U+00A0" -> <<" ">>
    [] ch = "U+00A8" -> <<" ", "U+0308">>
    [] OTHER -> <<ch>>

\* unicodedata.combining(ch) != 0
combining(ch) == ch \in {"U+0301", "U+0308"}

\* str.isalnum on one character
Alphanumerics == UpperSet \cup LowerSet \cup Digits \cup {"U+00E9", "U+00C9", "U+1D2C"}

isalnum(ch) == ch \in Alphanumerics

\* str.isspace on one character
isspace(ch) == ch \in {" ", "U+00A0"}

(***************************************************************************)
(* String helpers: str.strip, str.lower, NFKD, str.split, " ".join         *)
(***************************************************************************)
RECURSIVE lstrip(_)
lstrip(s) ==
  IF s # <<>> /\ isspace(Head(s)) THEN lstrip(Tail(s)) ELSE s

RECURSIVE rstrip(_)
rstrip(s) ==
  IF s # <<>> /\ isspace(s[Len(s)]) THEN rstrip(SubSeq(s, 1, Len(s) - 1)) ELSE s

strip(s) == rstrip(lstrip(s))

lower(s) == [i \in 1..Len(s) |-> lower_ch(s[i])]

RECURSIVE nfkd(_)
nfkd(s) ==
  IF s = <<>> THEN <<>> ELSE nfkd_ch(Head(s)) \o nfkd(Tail(s))

NotCombining(ch) == ~combining(ch)

Kept(ch) == isalnum(ch) \/ isspace(ch) \/ ch \in {"-", "'"}

\* str.split(): the maximal runs of non-whitespace characters, in order.
RECURSIVE split_from(_, _, _)
split_from(s, cur, acc) ==
  IF s = <<>>
    THEN (IF cur = <<>> THEN acc ELSE Append(acc, cur))
    ELSE IF isspace(Head(s))
      THEN split_from(Tail(s), <<>>, IF cur = <<>> THEN acc ELSE Append(acc, cur))
      ELSE split_from(Tail(s), Append(cur, Head(s)), acc)

split(s) == split_from(s, <<>>, <<>>)

\* " ".join(words)
RECURSIVE join(_)
join(words) ==
  IF words = <<>> THEN <<>>
  ELSE IF Len(words) = 1 THEN words[1]
  ELSE words[1] \o <<" ">> \o join(Tail(words))

\* norm(s), lines 83-91
norm(s) ==
  join(split(SelectSeq(SelectSeq(nfkd(lower(strip(s))), NotCombining), Kept)))

\* tokenize(s), lines 100-101
tokenize(s) == SelectSeq(split(norm(s)), LAMBDA t : t # <<>>)

(***************************************************************************)
(* None, and the program's state                                           *)
(***************************************************************************)
None == "None"

EmptyStr == <<>>

VARIABLES
  pc,                   \* position of the running code
  x, nx, nnx,           \* a string, norm(x), norm(norm(x))
  elements,             \* bootstrap["elements"]: the raw player records
  idx, roster,          \* what build_player_data returned
  PLAYER_ID_OVERRIDES,  \* raw pick -> element id
  ALIASES,              \* normalized pick -> key
  pick, resolved,       \* the pick being resolved and its resolution
  PICKS,                \* sequence of [name, picks]: the dict in insertion order
  person, k,            \* loop positions: participant, pick
  rows, total, all_scored,
  participants, leaderboard,
  attempt,              \* fetch_json's loop variable, 0 outside a fetch
  backoffs,             \* time.sleep(backoff ** attempt) calls of the fetch under way
  calls,                \* what the run did to the outside, in order
  fetched,              \* how many fetch_json calls have returned
  written               \* whether OUTPUT_JSON_PATH was written

vars ==
  <<pc, x, nx, nnx, elements, idx, roster, PLAYER_ID_OVERRIDES, ALIASES, pick,
    resolved, PICKS, person, k, rows, total, all_scored, participants,
    leaderboard, attempt, backoffs, calls, fetched, written>>

(***************************************************************************)
(* build_player_data, lines 104-144                                        *)
(***************************************************************************)
\* full = f"{first} {second}".strip(), line 119
full_name(e) == strip(e.first_name \o <<" ">> \o e.second_name)

\* display = full or web or second, line 120
display_of(e) ==
  IF full_name(e) # EmptyStr THEN full_name(e)
  ELSE IF e.web_name # EmptyStr THEN e.web_name
  ELSE e.second_name

\* the entry appended to roster, lines 126-132
roster_entry(e) ==
  [id |-> e.id, display |-> display_of(e), n_full |-> norm(full_name(e)),
   n_web |-> norm(e.web_name), n_second |-> norm(e.second_name)]

\* keys = {full, web, second}: a set of the raw strings, line 134
raw_keys(e) == {full_name(e), e.web_name, e.second_name}

\* A variant that indexes the empty key too.
index_keys_with_empty(e) == {norm(rk) : rk \in raw_keys(e)}

\* the normalized keys the loop of lines 135-142 appends under
index_keys(e) == {norm(rk) : rk \in raw_keys(e)} \ {EmptyStr}

\* how many times the loop appends under nk: once per raw key that
\* normalizes to nk
appends_under(e, nk) == Cardinality({rk \in raw_keys(e) : norm(rk) = nk})

RECURSIVE repeat(_, _)
repeat(v, n) == IF n = 0 THEN <<>> ELSE <<v>> \o repeat(v, n - 1)

\* idx.get(key, [])
idx_get(ix, key) == IF key \in DOMAIN ix THEN ix[key] ELSE <<>>

\* what the iteration of the loop for element e appends to idx[nk],
\* lines 135-142
appended_by(e, nk) ==
  IF nk \in index_keys(e)
    THEN repeat([id |-> e.id, display |-> display_of(e)], appends_under(e, nk))
    ELSE <<>>

\* idx[nk] after the loop over elements, line 113: the appends in input order
RECURSIVE entries_under(_, _)
entries_under(es, nk) ==
  IF es = <<>> THEN <<>>
  ELSE entries_under(SubSeq(es, 1, Len(es) - 1), nk) \o appended_by(es[Len(es)], nk)

\* idx as returned, line 144: setdefault creates a key at its first append
build_idx(es) ==
  [nk \in UNION {index_keys(es[i]) : i \in 1..Len(es)} |-> entries_under(es, nk)]

build_roster(es) == [i \in 1..Len(es) |-> roster_entry(es[i])]

(***************************************************************************)
(* resolve_pick_to_element, lines 147-192                                  *)
(***************************************************************************)
\* display names of the first eight, [c["display"] for c in cs[:8]]
MaxSuggestions == 8

first_displays(cs) ==
  [i \in 1..(IF Len(cs) < MaxSuggestions THEN Len(cs) ELSE MaxSuggestions) |->
     cs[i].display]

\* A variant that looks the normalized pick up in the override table.
override_applies_normalized(p, overrides) == norm(p) \in DOMAIN overrides

\* pick in PLAYER_ID_OVERRIDES, line 149
override_applies(p, overrides) == p \in DOMAIN overrides

\* A variant that accepts a token that a word starts with.
token_prefix_of_word(t, h) ==
  LET words == split(h)
  IN  \E i \in 1..Len(words) :
        Len(t) <= Len(words[i]) /\ SubSeq(words[i], 1, Len(t)) = t

\* t in h.split(), lines 177 and 186
token_in_words(t, h) ==
  LET words == split(h)
  IN  \E i \in 1..Len(words) : words[i] = t

all_tokens_in(toks, h) == \A i \in 1..Len(toks) : token_in_words(toks[i], h)

\* the condition of line 177
is_fuzzy(r, toks) ==
  \/ r.n_full # EmptyStr /\ all_tokens_in(toks, r.n_full)
  \/ r.n_web # EmptyStr /\ all_tokens_in(toks, r.n_web)

\* the condition of line 186
is_full_hit(r, toks) == r.n_full # EmptyStr /\ all_tokens_in(toks, r.n_full)

fuzzy_of(ros, toks) == SelectSeq(ros, LAMBDA r : is_fuzzy(r, toks))

full_hits_of(ros, toks) == SelectSeq(fuzzy_of(ros, toks), LAMBDA r : is_full_hit(r, toks))

\* key = norm(pick); key = ALIASES.get(key, key), lines 152-153
key_of(p, aliases) ==
  LET key == norm(p)
  IN  IF key \in DOMAIN aliases THEN aliases[key] ELSE key

not_found(p) == [status |-> "not_found", id |-> None, display_name |-> p]

ambiguous(p, sugg) ==
  [status |-> "ambiguous", id |-> None, display_name |-> p, suggestions |-> sugg]

ok(id, display) == [status |-> "ok", id |-> id, display_name |-> display]

\* lines 169-192
resolve_fuzzy(p, key, ros) ==
  LET toks == tokenize(key)
      fuzzy == fuzzy_of(ros, toks)
      full_hits == full_hits_of(ros, toks)
  IN  IF toks = <<>> THEN not_found(p)
      ELSE IF Len(fuzzy) = 1 THEN ok(fuzzy[1].id, fuzzy[1].display)
      ELSE IF Len(fuzzy) > 1
        THEN IF Len(full_hits) = 1
               THEN ok(full_hits[1].id, full_hits[1].display)
               ELSE ambiguous(p, first_displays(IF full_hits # <<>> THEN full_hits ELSE fuzzy))
        ELSE not_found(p)

\* lines 147-192
resolve_pick_to_element(p, ix, ros, overrides, aliases) ==
  LET key == key_of(p, aliases)
      candidates == idx_get(ix, key)
  IN  IF override_applies(p, overrides)
        THEN ok(overrides[p], p)
      ELSE IF Len(candidates) = 1
        THEN ok(candidates[1].id, candidates[1].display)
      ELSE IF Len(candidates) > 1
        THEN ambiguous(p, first_displays(candidates))
      ELSE resolve_fuzzy(p, key, ros)

(***************************************************************************)
(* Bounded inputs                                                          *)
(***************************************************************************)
MaxLen == 3

MaxSmall == 2

MaxLong == 9

RECURSIVE SeqsUpTo(_, _)
SeqsUpTo(S, n) ==
  IF n = 0 THEN {<<>>}
  ELSE LET shorter == SeqsUpTo(S, n - 1)
       IN  shorter \cup {Append(s, c) : s \in {t \in shorter : Len(t) = n - 1}, c \in S}

\* The characters strings are drawn from: a lower-case and an upper-case
\* letter, a space, a hyphen, a full stop, e-acute, the trade mark sign
\* (it decomposes to "TM"), the no-break space and the diaeresis (it
\* decomposes to a space and a combining mark).
NormAlphabet == {"a", "B", " ", "-", ".", "U+00E9", "U+2122", "U+00A0", "U+00A8"}

Strings == SeqsUpTo(NormAlphabet, MaxLen)

s_bruno == <<"B","r","u","n","o">>

s_guimaraes == <<"G","u","i","m","a","r","a","e","s">>

s_fernandes == <<"F","e","r","n","a","n","d","e","s">>

s_b_fernandes == <<"B",".","F","e","r","n","a","n","d","e","s">>

s_pedro == <<"P","e","d","r","o">>

s_neto == <<"N","e","t","o">>

\* "Nétó"-like spelling of the same name: e-acute in place of e
s_neto_accent == <<"N","U+00E9","t","o">>

s_saka == <<"S","a","k","a">>

s_saka_upper == <<"S","A","K","A">>

\* Raw player records without their id: first_name, second_name, web_name.
Templates ==
  { [first_name |-> s_bruno, second_name |-> s_guimaraes, web_name |-> s_guimaraes],
    [first_name |-> s_bruno, second_name |-> s_fernandes, web_name |-> s_b_fernandes],
    [first_name |-> s_pedro, second_name |-> s_neto, web_name |-> s_neto_accent],
    [first_name |-> EmptyStr, second_name |-> s_saka, web_name |-> s_saka_upper],
    [first_name |-> EmptyStr, second_name |-> EmptyStr, web_name |-> s_pedro \o <<" ", "N">>],
    [first_name |-> EmptyStr, second_name |-> EmptyStr, web_name |-> EmptyStr],
    [first_name |-> <<" ">>, second_name |-> <<".">>, web_name |-> <<"U+00A8">>] }

\* Two players that share a last name and a first initial, for long rosters.
LongTemplates ==
  { [first_name |-> <<"J">>, second_name |-> s_neto, web_name |-> s_neto],
    [first_name |-> <<"J"," ","P">>, second_name |-> s_neto, web_name |-> s_neto] }

\* The records of a roster get their position as id: ids are unique.
with_ids(ts) ==
  [i \in 1..Len(ts) |->
     [id |-> i, first_name |-> ts[i].first_name,
      second_name |-> ts[i].second_name, web_name |-> ts[i].web_name]]

\* Long rosters: a run of one template followed by a run of another.
LongLists ==
  UNION {{repeat(a, i) \o repeat(b, n - i) : a \in LongTemplates, b \in LongTemplates, i \in 0..n} :
           n \in {MaxLong - 1, MaxLong}}

ElementLists ==
  {with_ids(ts) : ts \in SeqsUpTo(Templates, MaxSmall) \cup LongLists}

p_bruno_g == <<"b","r","u","n","o"," ","g">>

p_Neto == <<"N","e","t","o">>

PickTexts ==
  { p_bruno_g, p_Neto, <<"b","r","u","n","o">>, <<"s","a","k","a">>,
    <<"j">>, <<"P","e","d","r","o">>, <<".">> }

\* the id of the commented example, line 45
OverrideId == 999

\* PLAYER_ID_OVERRIDES as shipped (empty), and with the commented example.
OverrideTables == { <<>>, (p_Neto :> OverrideId) }

\* ALIASES: none, and two of the shipped entries.
AliasTables ==
  { <<>>,
    (<<"n","e","t","o">> :> <<"p","e","d","r","o"," ","n","e","t","o">>)
      @@ (p_bruno_g :> <<"b","r","u","n","o"," ","g","u","i","m","a","r","a","e","s">>) }

NoParticipants == <<>>

(***************************************************************************)
(* SpecNorm: norm applied to a string, then to its result                  *)
(***************************************************************************)
IdleRun ==
  /\ PICKS = NoParticipants /\ person = 0 /\ k = 0 /\ rows = <<>> /\ total = 0
  /\ all_scored = TRUE /\ participants = <<>> /\ leaderboard = <<>>
  /\ attempt = 0 /\ backoffs = 0 /\ calls = <<>> /\ fetched = 0 /\ written = FALSE

IdleResolve ==
  /\ elements = <<>> /\ idx = <<>> /\ roster = <<>> /\ PLAYER_ID_OVERRIDES = <<>>
  /\ ALIASES = <<>> /\ pick = EmptyStr /\ resolved = None

runVars ==
  <<PICKS, person, k, rows, total, all_scored, participants, leaderboard,
    attempt, backoffs, calls, fetched, written>>

resolveVars == <<elements, idx, roster, PLAYER_ID_OVERRIDES, ALIASES, pick, resolved>>

normVars == <<x, nx, nnx>>

InitNorm ==
  /\ pc = "norm"
  /\ x \in Strings /\ nx = None /\ nnx = None
  /\ IdleResolve /\ IdleRun

Norm ==
  /\ pc = "norm"
  /\ nx' = norm(x)
  /\ pc' = "norm_again"
  /\ UNCHANGED <<x, nnx, resolveVars, runVars>>

NormAgain ==
  /\ pc = "norm_again"
  /\ nnx' = norm(nx)
  /\ pc' = "normed"
  /\ UNCHANGED <<x, nx, resolveVars, runVars>>

NextNorm == Norm \/ NormAgain

SpecNorm == InitNorm /\ [][NextNorm]_vars

(***************************************************************************)
(* SpecResolve: build_player_data on a roster, then one pick resolved      *)
(***************************************************************************)
InitResolve ==
  /\ pc = "build"
  /\ elements \in ElementLists
  /\ pick \in PickTexts
  /\ PLAYER_ID_OVERRIDES \in OverrideTables
  /\ ALIASES \in AliasTables
  /\ idx = <<>> /\ roster = <<>> /\ resolved = None
  /\ x = EmptyStr /\ nx = None /\ nnx = None
  /\ IdleRun

BuildPlayerData ==
  /\ pc = "build"
  /\ idx' = build_idx(elements)
  /\ roster' = build_roster(elements)
  /\ pc' = "resolve"
  /\ UNCHANGED <<elements, pick, PLAYER_ID_OVERRIDES, ALIASES, resolved, normVars, runVars>>

ResolvePick ==
  /\ pc = "resolve"
  /\ resolved' = resolve_pick_to_element(pick, idx, roster, PLAYER_ID_OVERRIDES, ALIASES)
  /\ pc' = "resolved"
  /\ UNCHANGED <<elements, idx, roster, pick, PLAYER_ID_OVERRIDES, ALIASES, normVars, runVars>>

NextResolve == BuildPlayerData \/ ResolvePick

SpecResolve == InitResolve /\ [][NextResolve]_vars

(***************************************************************************)
(* fetch_json, goals_since_cutoff, compute_scoreboard and main             *)
(***************************************************************************)
max_retries == 6

BustCeiling == 21

\* CUTOFF_ISO "2025-12-25T00:00:00Z". An instant is modelled by the number
\* yyyymmddhh of its UTC hour, which orders instants as datetime does.
CUTOFF == 2025122500

\* A variant that allows one attempt more.
last_attempt_late(a) == a = max_retries + 1

\* attempt == max_retries, line 76
last_attempt(a) == a = max_retries

\* int(h.get("goals_scored", 0) or 0), line 206; a record without the field
\* models a missing or null one
goals_of(h) == IF "goals_scored" \in DOMAIN h THEN h.goals_scored ELSE 0

\* the loop of lines 199-208 over data["history"]
RECURSIVE sum_since(_, _)
sum_since(history, cutoff) ==
  IF history = <<>> THEN 0
  ELSE LET h == Head(history)
       IN  (IF "kickoff_time" \in DOMAIN h /\ h.kickoff_time >= cutoff THEN goals_of(h) ELSE 0)
             + sum_since(Tail(history), cutoff)

\* A variant that requests before it sleeps.
goals_since_cutoff_calls_unthrottled(element_id) ==
  << [op |-> "fetch_json", url |-> element_id], [op |-> "sleep"] >>

\* what goals_since_cutoff does before it reads the answer, lines 196-197:
\* time.sleep(SLEEP_BETWEEN_REQUESTS_SEC), then fetch_json of the element's
\* summary
goals_since_cutoff_calls(element_id) ==
  << [op |-> "sleep"], [op |-> "fetch_json", url |-> element_id] >>

\* A variant with >= in place of >.
is_bust_at_ceiling(t, scored) == (t >= BustCeiling) \/ ~scored

\* is_bust = (total > 21) or (not all_scored), line 248
is_bust(t, scored) == (t > BustCeiling) \/ ~scored

\* line 257
is_eligible(p) == ~p.is_bust /\ p.total <= BustCeiling /\ p.all_scored

\* A variant of the sort that puts a participant before those of equal
\* total.
RECURSIVE sort_total_desc_unstable(_)
sort_total_desc_unstable(ps) ==
  IF ps = <<>> THEN <<>>
  ELSE LET rest == sort_total_desc_unstable(SubSeq(ps, 1, Len(ps) - 1))
           p == ps[Len(ps)]
           n == Cardinality({i \in 1..Len(rest) : rest[i].total > p.total})
       IN  SubSeq(rest, 1, n) \o <<p>> \o SubSeq(rest, n + 1, Len(rest))

\* eligible.sort(key=lambda x: x["total"], reverse=True), line 258: a stable
\* sort, so a participant goes after those before it in the list whose total
\* is greater or equal
RECURSIVE sort_total_desc(_)
sort_total_desc(ps) ==
  IF ps = <<>> THEN <<>>
  ELSE LET rest == sort_total_desc(SubSeq(ps, 1, Len(ps) - 1))
           p == ps[Len(ps)]
           n == Cardinality({i \in 1..Len(rest) : rest[i].total >= p.total})
       IN  SubSeq(rest, 1, n) \o <<p>> \o SubSeq(rest, n + 1, Len(rest))

\* lines 257-259
leaderboard_of(ps) ==
  LET sorted == sort_total_desc(SelectSeq(ps, is_eligible))
  IN  [i \in 1..Len(sorted) |-> [name |-> sorted[i].name, total |-> sorted[i].total]]

(***************************************************************************)
(* Inputs of a run: the configured picks and what the provider answers     *)
(***************************************************************************)
p_bruno == <<"b","r","u","n","o">>

p_pedro == <<"P","e","d","r","o">>

p_guimaraes == <<"G","u","i","m","a","r","a","e","s">>

\* PICKS, lines 20-25, as the sequence of its items: four participants of
\* one pick, and three participants with picks that do not resolve.
PickTables ==
  { << [name |-> "Tommy", picks |-> <<p_pedro>>],
       [name |-> "Tiz", picks |-> <<p_guimaraes>>],
       [name |-> "Matt", picks |-> <<p_pedro>>],
       [name |-> "Vinit", picks |-> <<p_guimaraes>>] >>,
    << [name |-> "Tommy", picks |-> <<p_bruno, p_bruno_g, p_pedro>>],
       [name |-> "Tiz", picks |-> <<p_guimaraes, p_pedro>>],
       [name |-> "Matt", picks |-> <<p_guimaraes>>] >> }

\* bootstrap["elements"]: a roster with two Brunos, and an empty one
RunElementLists ==
  { with_ids(<< [first_name |-> s_pedro, second_name |-> s_neto, web_name |-> s_neto],
                [first_name |-> s_bruno, second_name |-> s_guimaraes, web_name |-> s_guimaraes],
                [first_name |-> s_bruno, second_name |-> s_fernandes, web_name |-> s_b_fernandes] >>),
    <<>> }

\* data["history"] of an element summary
Histories ==
  { <<>>,
    << [kickoff_time |-> 2025122423, goals_scored |-> 2],
       [kickoff_time |-> 2025122612, goals_scored |-> 1] >>,
    << [kickoff_time |-> CUTOFF, goals_scored |-> 3],
       [kickoff_time |-> 2025122612] >>,
    << [goals_scored |-> 4],
       [kickoff_time |-> 2025122612, goals_scored |-> 5] >>,
    << [kickoff_time |-> 2025122612, goals_scored |-> 9] >>,
    << [kickoff_time |-> 2025122612, goals_scored |-> 10],
       [kickoff_time |-> 2026010115, goals_scored |-> 11] >>,
    << [kickoff_time |-> 2025122612, goals_scored |-> 22] >> }

(***************************************************************************)
(* Spec: one run of main                                                   *)
(***************************************************************************)
Init ==
  /\ pc = "start"
  /\ PICKS \in PickTables
  /\ PLAYER_ID_OVERRIDES = <<>>
  /\ ALIASES = <<>>
  /\ elements = <<>> /\ idx = <<>> /\ roster = <<>>
  /\ pick = EmptyStr /\ resolved = None
  /\ person = 0 /\ k = 0 /\ rows = <<>> /\ total = 0 /\ all_scored = TRUE
  /\ participants = <<>> /\ leaderboard = <<>>
  /\ attempt = 0 /\ backoffs = 0 /\ calls = <<>> /\ fetched = 0 /\ written = FALSE
  /\ x = EmptyStr /\ nx = None /\ nnx = None

config == <<PICKS, PLAYER_ID_OVERRIDES, ALIASES>>

Fetching == pc \in {"fetch_bootstrap", "fetch_summary"}

\* main calls compute_scoreboard, which calls fetch_json(BOOTSTRAP_URL),
\* lines 274, 212-214
StartRun ==
  /\ pc = "start"
  /\ pc' = "fetch_bootstrap"
  /\ calls' = <<[op |-> "fetch_json", url |-> "bootstrap-static"]>>
  /\ attempt' = 1 /\ backoffs' = 0
  /\ UNCHANGED <<normVars, config, elements, idx, roster, pick, resolved, person, k,
                 rows, total, all_scored, participants, leaderboard, fetched, written>>

\* an attempt that is not the last fails: fetch_json sleeps and tries again,
\* lines 75-80
FetchRetry ==
  /\ Fetching
  /\ ~last_attempt(attempt)
  /\ backoffs' = backoffs + 1
  /\ attempt' = attempt + 1
  /\ UNCHANGED <<pc, normVars, config, elements, idx, roster, pick, resolved, person, k,
                 rows, total, all_scored, participants, leaderboard, calls, fetched, written>>

\* the last attempt fails: the exception leaves fetch_json, compute_scoreboard
\* and main, lines 76-77
FetchRaise ==
  /\ Fetching
  /\ last_attempt(attempt)
  /\ pc' = "failed"
  /\ UNCHANGED <<normVars, config, elements, idx, roster, pick, resolved, person, k, rows,
                 total, all_scored, participants, leaderboard, attempt, backoffs, calls,
                 fetched, written>>

\* the bootstrap fetch returns; build_player_data; the loop over PICKS starts,
\* lines 214-222
BootstrapFetched ==
  /\ pc = "fetch_bootstrap"
  /\ \E es \in RunElementLists :
       /\ elements' = es
       /\ idx' = build_idx(es)
       /\ roster' = build_roster(es)
  /\ fetched' = fetched + 1
  /\ attempt' = 0 /\ backoffs' = 0
  /\ participants' = <<>>
  /\ person' = 1 /\ k' = 1 /\ rows' = <<>> /\ total' = 0 /\ all_scored' = TRUE
  /\ pc' = "pick"
  /\ UNCHANGED <<normVars, config, pick, resolved, leaderboard, calls, written>>

InPicks == pc = "pick" /\ person <= Len(PICKS) /\ k <= Len(PICKS[person].picks)

current_pick == PICKS[person].picks[k]

resolve_current ==
  resolve_pick_to_element(current_pick, idx, roster, PLAYER_ID_OVERRIDES, ALIASES)

\* a pick that does not resolve: its row, and on to the next pick,
\* lines 225-235
PickNotResolved ==
  /\ InPicks
  /\ resolve_current.status # "ok"
  /\ pick' = current_pick
  /\ resolved' = resolve_current
  /\ rows' = Append(rows, [display_name |-> resolve_current.display_name,
                           status |-> resolve_current.status,
                           goals |-> 0,
                           suggestions |-> IF resolve_current.status = "ambiguous"
                                             THEN resolve_current.suggestions ELSE None])
  /\ all_scored' = FALSE
  /\ k' = k + 1
  /\ UNCHANGED <<pc, normVars, config, elements, idx, roster, person, total, participants,
                 leaderboard, attempt, backoffs, calls, fetched, written>>

\* a pick that resolves: goals_since_cutoff sleeps and starts its fetch,
\* lines 225-227, 237, 196-197
PickResolved ==
  /\ InPicks
  /\ resolve_current.status = "ok"
  /\ pick' = current_pick
  /\ resolved' = resolve_current
  /\ calls' = calls \o goals_since_cutoff_calls(resolve_current.id)
  /\ attempt' = 1 /\ backoffs' = 0
  /\ pc' = "fetch_summary"
  /\ UNCHANGED <<normVars, config, elements, idx, roster, person, k, rows, total, all_scored,
                 participants, leaderboard, fetched, written>>

\* the summary fetch returns: the goals since the cutoff, the total, the row,
\* lines 197-208, 237-246
SummaryFetched ==
  /\ pc = "fetch_summary"
  /\ \E history \in Histories :
       LET g == sum_since(history, CUTOFF)
       IN  /\ total' = total + g
           /\ all_scored' = IF g <= 0 THEN FALSE ELSE all_scored
           /\ rows' = Append(rows, [display_name |-> resolved.display_name,
                                    status |-> "ok", goals |-> g])
  /\ fetched' = fetched + 1
  /\ attempt' = 0 /\ backoffs' = 0
  /\ k' = k + 1
  /\ pc' = "pick"
  /\ UNCHANGED <<normVars, config, elements, idx, roster, pick, resolved, person, participants,
                 leaderboard, calls, written>>

\* the picks of a participant are done: the bust rule and the participant's
\* entry, lines 248-255; the next iteration starts, lines 219-222
FinishParticipant ==
  /\ pc = "pick" /\ person <= Len(PICKS) /\ k > Len(PICKS[person].picks)
  /\ participants' = Append(participants,
                            [name |-> PICKS[person].name, players |-> rows, total |-> total,
                             all_scored |-> all_scored, is_bust |-> is_bust(total, all_scored)])
  /\ person' = person + 1
  /\ k' = 1 /\ rows' = <<>> /\ total' = 0 /\ all_scored' = TRUE
  /\ UNCHANGED <<pc, normVars, config, elements, idx, roster, pick, resolved, leaderboard,
                 attempt, backoffs, calls, fetched, written>>

\* the loop over PICKS is done: the leaderboard and the payload, lines 257-270
BuildLeaderboard ==
  /\ pc = "pick" /\ person > Len(PICKS)
  /\ leaderboard' = leaderboard_of(participants)
  /\ pc' = "write"
  /\ UNCHANGED <<normVars, config, elements, idx, roster, pick, resolved, person, k, rows,
                 total, all_scored, participants, attempt, backoffs, calls, fetched, written>>

\* main writes the payload, lines 275-277
WriteOutput ==
  /\ pc = "write"
  /\ written' = TRUE
  /\ pc' = "done"
  /\ UNCHANGED <<normVars, config, elements, idx, roster, pick, resolved, person, k, rows,
                 total, all_scored, participants, leaderboard, attempt, backoffs, calls,
                 fetched>>

Next ==
  \/ StartRun
  \/ FetchRetry
  \/ FetchRaise
  \/ BootstrapFetched
  \/ PickNotResolved
  \/ PickResolved
  \/ SummaryFetched
  \/ FinishParticipant
  \/ BuildLeaderboard
  \/ WriteOutput

Spec == Init /\ [][Next]_vars

(***************************************************************************)
(* Properties of norm (SpecNorm)                                           *)
(***************************************************************************)
\* C3: norm is idempotent: norm(norm(x)) = norm(x) for every string x,
\* also when the decomposition that follows the lower-casing produces
\* upper-case letters.
C3_NormIdempotent == pc = "normed" => nnx = nx

(***************************************************************************)
(* Properties of build_player_data and resolve_pick_to_element             *)
(* (SpecResolve)                                                           *)
(***************************************************************************)
Built == pc \in {"resolve", "resolved"}

\* the keys of idx that hold an entry of the player with this id
KeysOf(id) == {nk \in DOMAIN idx : \E i \in 1..Len(idx[nk]) : idx[nk][i].id = id}

\* C1: no key's candidate list holds the same player id twice, also when
\* the player's names are different raw strings with the same normal form.
C1_OneEntryPerPlayerPerKey ==
  Built =>
    \A nk \in DOMAIN idx : \A i, j \in 1..Len(idx[nk]) :
      i # j => idx[nk][i].id # idx[nk][j].id

\* C2 as stated: every roster entry is in the index under at least one and
\* at most three keys, also a player whose names are all empty.
C2_EveryEntryUnderOneToThreeKeys ==
  Built =>
    \A i \in 1..Len(roster) :
      Cardinality(KeysOf(roster[i].id)) \in 1..3

AllNamesEmpty(r) == r.n_full = EmptyStr /\ r.n_web = EmptyStr /\ r.n_second = EmptyStr

\* C2 amended: every roster entry is in the index under at most three keys,
\* and under at least one exactly when one of its names has a non-empty
\* normal form; a player whose names all normalize to the empty string is in
\* the roster and under no key.
C2_EntryUnderUpToThreeKeys ==
  Built =>
    /\ Len(roster) = Len(elements)
    /\ \A i \in 1..Len(roster) :
         /\ roster[i].id = elements[i].id
         /\ Cardinality(KeysOf(roster[i].id)) <= 3
         /\ (KeysOf(roster[i].id) = {}) <=> AllNamesEmpty(roster[i])
         /\ KeysOf(roster[i].id)
              = {roster[i].n_full, roster[i].n_web, roster[i].n_second} \ {EmptyStr}

\* a roster with a player without any name, one whose names are punctuation
\* only, and one under three keys
C2_Witness ==
  /\ Built
  /\ \E i \in 1..Len(roster) :
       /\ AllNamesEmpty(roster[i]) /\ KeysOf(roster[i].id) = {}
       /\ elements[i].web_name # EmptyStr
  /\ \E i \in 1..Len(roster) : Cardinality(KeysOf(roster[i].id)) = 3

IsBrunoRoster ==
  /\ Len(elements) = 2
  /\ {full_name(elements[i]) : i \in 1..2}
       = {s_bruno \o <<" ">> \o s_guimaraes, s_bruno \o <<" ">> \o s_fernandes}

BrunoGCase ==
  /\ pc = "resolved" /\ IsBrunoRoster /\ pick = p_bruno_g
  /\ PLAYER_ID_OVERRIDES = <<>> /\ ALIASES = <<>>

\* C4 as stated: with the roster {Bruno Guimaraes, Bruno Fernandes}, no
\* override and no alias, the pick "bruno g" resolves Ok to Bruno Guimaraes.
C4_BrunoGResolvesToGuimaraes ==
  BrunoGCase =>
    /\ resolved.status = "ok"
    /\ resolved.display_name = s_bruno \o <<" ">> \o s_guimaraes

\* C4 amended: with that roster, no override and no alias, the pick
\* "bruno g" resolves NotFound: "g" is not a whole word of any name, so no
\* roster entry is a fuzzy candidate and nothing is narrowed.
C4_BrunoGNotFound ==
  BrunoGCase =>
    /\ resolved.status = "not_found"
    /\ resolved.id = None
    /\ resolved.display_name = p_bruno_g
    /\ fuzzy_of(roster, tokenize(p_bruno_g)) = <<>>

C4_Witness == BrunoGCase /\ p_bruno_g \notin DOMAIN idx

\* C5: a pick that is a key of the override table resolves Ok with the
\* overridden id and the raw pick text as display name, whatever the roster,
\* the index and the alias table hold.
C5_OverrideWins ==
  (pc = "resolved" /\ pick \in DOMAIN PLAYER_ID_OVERRIDES) =>
    /\ resolved.status = "ok"
    /\ resolved.id = PLAYER_ID_OVERRIDES[pick]
    /\ resolved.display_name = pick
    /\ DOMAIN resolved = {"status", "id", "display_name"}

\* an overridden pick whose normal form is an alias and a key of the index
\* with several candidates
C5_Witness ==
  /\ pc = "resolved" /\ pick \in DOMAIN PLAYER_ID_OVERRIDES
  /\ norm(pick) \in DOMAIN ALIASES
  /\ Len(idx_get(idx, norm(pick))) > 1
  /\ resolved.id = OverrideId

\* the roster entries that match the key, in roster order: those with the
\* key among their normalized names when the index knows the key, else the
\* narrowed fuzzy candidates, or the fuzzy candidates when narrowing leaves
\* none
MatchingCandidates ==
  LET key == key_of(pick, ALIASES)
      toks == tokenize(key)
  IN  IF key \in DOMAIN idx
        THEN SelectSeq(roster, LAMBDA r : key \in {r.n_full, r.n_web, r.n_second})
      ELSE IF full_hits_of(roster, toks) # <<>> THEN full_hits_of(roster, toks)
      ELSE fuzzy_of(roster, toks)

\* C6: the suggestions of an Ambiguous result are at most 8 display names,
\* a prefix of the matching candidates in roster input order.
C6_SuggestionsPrefixOfCandidates ==
  (pc = "resolved" /\ resolved.status = "ambiguous") =>
    /\ Len(resolved.suggestions) <= MaxSuggestions
    /\ Len(resolved.suggestions) <= Len(MatchingCandidates)
    /\ \A i \in 1..Len(resolved.suggestions) :
         resolved.suggestions[i] = MatchingCandidates[i].display

(***************************************************************************)
(* Properties of a run (Spec)                                              *)
(***************************************************************************)
RowScored(row) == row.status = "ok" /\ row.goals > 0

RECURSIVE SumGoals(_)
SumGoals(rs) == IF rs = <<>> THEN 0 ELSE Head(rs).goals + SumGoals(Tail(rs))

AllRowsScored(p) == \A i \in 1..Len(p.players) : RowScored(p.players[i])

\* C7: a participant is bust exactly when the total exceeds 21 or one of the
\* picks did not resolve Ok or resolved Ok with zero goals or fewer.
C7_BustRule ==
  \A n \in 1..Len(participants) :
    LET p == participants[n]
    IN  /\ p.total = SumGoals(p.players)
        /\ Len(p.players) = Len(PICKS[n].picks)
        /\ p.is_bust <=> (p.total > 21 \/ ~AllRowsScored(p))

\* a payload with a participant of total 22 whose picks all scored (bust),
\* one of total 21 whose picks all scored (not bust, on the leaderboard) and
\* one with a NotFound pick and total 0 (bust)
C7_Witness ==
  /\ pc = "done"
  /\ \E n \in 1..Len(participants) :
       participants[n].total = 22 /\ AllRowsScored(participants[n]) /\ participants[n].is_bust
  /\ \E n \in 1..Len(participants) :
       /\ participants[n].total = 21 /\ AllRowsScored(participants[n])
       /\ ~participants[n].is_bust
       /\ \E i \in 1..Len(leaderboard) : leaderboard[i].name = participants[n].name
  /\ \E n \in 1..Len(participants) :
       /\ participants[n].total = 0 /\ participants[n].is_bust
       /\ \E i \in 1..Len(participants[n].players) :
            participants[n].players[i].status = "not_found"

\* the position of a participant in the input order
InputPosition(name) == CHOOSE n \in 1..Len(PICKS) : PICKS[n].name = name

Eligible(p) == ~p.is_bust /\ p.total <= 21 /\ AllRowsScored(p)

\* C8: the leaderboard is the list of the participants that are not bust,
\* have a total of at most 21 and have all picks scored, by total
\* descending, those of equal total in input order; the participants list
\* holds every participant.
C8_Leaderboard ==
  pc \in {"write", "done"} =>
    /\ Len(participants) = Len(PICKS)
    /\ \A n \in 1..Len(PICKS) : participants[n].name = PICKS[n].name
    /\ \A n \in 1..Len(participants) :
         Eligible(participants[n]) <=>
           \E i \in 1..Len(leaderboard) :
             leaderboard[i] = [name |-> participants[n].name, total |-> participants[n].total]
    /\ Len(leaderboard) = Cardinality({n \in 1..Len(participants) : Eligible(participants[n])})
    /\ \A i, j \in 1..Len(leaderboard) :
         i < j =>
           \/ leaderboard[i].total > leaderboard[j].total
           \/ /\ leaderboard[i].total = leaderboard[j].total
              /\ InputPosition(leaderboard[i].name) < InputPosition(leaderboard[j].name)

\* totals 5, 9, 9, 3 in input order, all eligible: the leaderboard is
\* 9, 9, 5, 3 with the two 9s in input order
C8_Witness ==
  /\ pc = "done"
  /\ Len(participants) = 4
  /\ [n \in 1..4 |-> participants[n].total] = <<5, 9, 9, 3>>
  /\ leaderboard = << [name |-> participants[2].name, total |-> 9],
                      [name |-> participants[3].name, total |-> 9],
                      [name |-> participants[1].name, total |-> 5],
                      [name |-> participants[4].name, total |-> 3] >>

FetchCalls == SelectSeq(calls, LAMBDA c : c.op = "fetch_json")

\* C9: a fetch makes at most max_retries attempts and sleeps after each
\* failed attempt but the last; when the last attempt fails the run ends
\* without output; the output is written only when every fetch of the run
\* has returned.
C9_FetchRetries ==
  /\ attempt <= max_retries
  /\ Fetching => (attempt >= 1 /\ backoffs = attempt - 1)
  /\ pc = "failed" =>
       /\ attempt = max_retries /\ backoffs = max_retries - 1
       /\ ~written
       /\ fetched < Len(FetchCalls)
  /\ written => (pc = "done" /\ fetched = Len(FetchCalls) /\ fetched >= 1)
  /\ pc \in {"write", "done"} => fetched = Len(FetchCalls)

\* a run that ends in the sixth failure of a history fetch, after five sleeps
C9_Witness ==
  /\ pc = "failed" /\ attempt = 6 /\ backoffs = 5 /\ ~written
  /\ Len(FetchCalls) > 1 /\ fetched = Len(FetchCalls) - 1

\* the picks handled so far, in participant-then-pick order; the pick whose
\* history is being fetched counts
RECURSIVE PicksBefore(_, _)
PicksBefore(n, i) ==
  IF n = 0 \/ n > Len(PICKS) THEN (IF n = 0 THEN <<>> ELSE PicksBefore(n - 1, Len(PICKS[n - 1].picks)))
  ELSE IF i = 0 THEN (IF n = 1 THEN <<>> ELSE PicksBefore(n - 1, Len(PICKS[n - 1].picks)))
  ELSE Append(PicksBefore(n, i - 1), PICKS[n].picks[i])

HandledPicks ==
  IF pc \in {"start", "fetch_bootstrap"} THEN <<>>
  ELSE IF pc = "fetch_summary" THEN PicksBefore(person, k)
  ELSE IF pc = "failed" /\ fetched = 0 THEN <<>>
  ELSE IF pc = "failed" THEN PicksBefore(person, k)
  ELSE PicksBefore(person, k - 1)

RECURSIVE LookupsFor(_)
LookupsFor(ps) ==
  IF ps = <<>> THEN <<>>
  ELSE LET r == resolve_pick_to_element(Head(ps), idx, roster, PLAYER_ID_OVERRIDES, ALIASES)
       IN  (IF r.status = "ok"
              THEN << [op |-> "sleep"], [op |-> "fetch_json", url |-> r.id] >>
              ELSE <<>>)
             \o LookupsFor(Tail(ps))

\* C10: the run fetches the roster first, then makes one history lookup per
\* pick that resolved Ok, in participant-then-pick order, each after the
\* throttle sleep; a pick that does not resolve makes no lookup, gets a row
\* of zero goals and does not end the run.
C10_RequestSequence ==
  /\ pc # "start" =>
       calls = <<[op |-> "fetch_json", url |-> "bootstrap-static"]>> \o LookupsFor(HandledPicks)
  /\ Len(FetchCalls) - fetched \in {0, 1}
  /\ \A n \in 1..Len(participants) :
       /\ Len(participants[n].players) = Len(PICKS[n].picks)
       /\ \A i \in 1..Len(participants[n].players) :
            LET row == participants[n].players[i]
                r == resolve_pick_to_element(PICKS[n].picks[i], idx, roster,
                                             PLAYER_ID_OVERRIDES, ALIASES)
            IN  /\ row.status = r.status
                /\ row.status # "ok" => row.goals = 0
  /\ pc = "failed" => (attempt = max_retries /\ fetched < Len(FetchCalls))

\* a finished run in which an Ambiguous pick and a NotFound pick were
\* followed by a pick that resolved and was looked up
C10_Witness ==
  /\ pc = "done" /\ written
  /\ \E n \in 1..Len(participants) :
       /\ participants[n].players[1].status = "ambiguous"
       /\ participants[n].players[2].status = "not_found"
       /\ participants[n].players[3].status = "ok"
       /\ participants[n].players[3].goals > 0
  /\ Len(calls) = 9

====
